---- MODULE Spec2Model ----
(***************************************************************************)
(* SudokuCSP (src/main.py): domain store, AC-3 propagation and the         *)
(* backtracking search with MRV / LCV and forward checking.                *)
(*                                                                         *)
(* The board is built exactly as _build_peers builds it, from the side of  *)
(* a block.  The source fixes the side at 3 (a 9x9 board); the side is the *)
(* bound Box of this model, so every occurrence of 9 in the source is N    *)
(* here and every occurrence of 3 is Box.                                  *)
(*                                                                         *)
(* Python objects that are mutated in place (the dicts of candidate sets)  *)
(* live in heap, addressed by references, so that a missing copy shows up  *)
(* as a changed object.  The iteration order of a Python set is not fixed  *)
(* by the language; every loop over a set takes its order from ord.        *)
(***************************************************************************)
EXTENDS Integers, Sequences, FiniteSets, TLC

VARIABLES
    grid,      \* self.grid: the puzzle, cell -> 0..N
    heap,      \* reference -> domain assignment (cell -> set of values)
    stack,     \* call stack of backtrack, innermost frame last
    ret,       \* value returned by the call that returned last
    mode,      \* position of the program
    result,    \* what solve() returned
    ord,       \* the set iteration orders of this run
    queue,     \* the worklist of the running ac3 call
    runs,      \* number of solve() / ac3() calls started so far
    prev,      \* observation: what the previous call returned
    trials,    \* observation: values tried by backtrack in this solve()
    failed,    \* observation: values dropped by backtrack in this solve()
    revisions  \* observation: revisions of this ac3 call that changed a domain

vars ==
    <<grid, heap, stack, ret, mode, result, ord, queue, runs, prev, trials, failed,
      revisions>>

----------------------------------------------------------------------------
(* Bounds of the model *)

Box == 2
NumClueCells == 4
NumHoles == 8
MaxEdits == 1
NumFreeCells == 2
MaxRuns == 2
MaxBlanks == 3
NumOpenCells == 3

----------------------------------------------------------------------------
(* Board topology: __init__ and _build_peers *)

N == Box * Box

Digits == 1..N

\* self.cells = [(r, c) for r in range(9) for c in range(9)]
cells == [i \in 1..(N * N) |-> <<(i - 1) \div N, (i - 1) % N>>]

CellSet == {cells[i] : i \in 1..(N * N)}

\* The set of peers of every cell: same row, same column, same block.
peers ==
    [cell \in CellSet |->
        LET r == cell[1]
            c == cell[2]
            br == Box * (r \div Box)
            bc == Box * (c \div Box)
        IN  {<<r, j>> : j \in (0..(N - 1)) \ {c}}
            \cup {<<i, c>> : i \in (0..(N - 1)) \ {r}}
            \cup ({<<i, j>> : i \in br..(br + Box - 1), j \in bc..(bc + Box - 1)}
                  \ {cell})]

----------------------------------------------------------------------------
(* Python values *)

\* None, and a value that is not None, as sets of at most one element.
None == {}

Some(x) == {x}

The(s) == CHOOSE x \in s : TRUE

----------------------------------------------------------------------------
(* Iteration order of sets.  An order is "asc" or "desc"; a set of cells   *)
(* is visited by row-major index, a set of values by value.                *)

OrderNames == {"asc", "desc"}

\* One run's orders: fill  - for xj in self.peers[xi]
\*                   refill - for xk in self.peers[xi] - {xj}
\*                   vals   - for val in domains[var]
Orders == [fill : OrderNames, refill : OrderNames, vals : OrderNames]

CellIndex(cell) == cell[1] * N + cell[2]

RECURSIVE IterInts(_, _)
IterInts(S, o) ==
    IF S = {} THEN <<>>
    ELSE LET x == IF o = "asc"
                  THEN CHOOSE y \in S : \A z \in S : y <= z
                  ELSE CHOOSE y \in S : \A z \in S : y >= z
         IN  <<x>> \o IterInts(S \ {x}, o)

IterCells(S, o) ==
    LET idx == IterInts({CellIndex(x) : x \in S}, o)
    IN  [i \in 1..Len(idx) |-> cells[idx[i] + 1]]

PeerSeq == [o \in OrderNames |-> [cell \in CellSet |-> IterCells(peers[cell], o)]]

----------------------------------------------------------------------------
(* Domain store: _initialize_domains *)

\* Variant: the full domain stops one value short.
InitializeDomainsShortRange(g) ==
    [cell \in CellSet |->
        LET val == g[cell]
        IN  IF val # 0 /\ 1 <= val /\ val <= N
            THEN {val}
            ELSE LET used == {g[p] : p \in {q \in peers[cell] : g[q] # 0}}
                 IN  (1..(N - 1)) \ used]

\* A cell holding a clue gets {clue}; any other cell gets the values that no
\* peer holds.  A value outside 1..N counts as no clue for its own cell.
InitializeDomains(g) ==
    [cell \in CellSet |->
        LET val == g[cell]
        IN  IF val # 0 /\ 1 <= val /\ val <= N
            THEN {val}
            ELSE LET used == {g[p] : p \in {q \in peers[cell] : g[q] # 0}}
                 IN  Digits \ used]

----------------------------------------------------------------------------
(* AC-3: revise and ac3 *)

\* Variant: the last value of a domain is never removed.
ReviseKeepLast(d, xi, xj) ==
    LET to_remove == {x \in d[xi] : Cardinality(d[xj]) = 1 /\ x \in d[xj]}
    IN  IF to_remove # {} /\ to_remove # d[xi]
        THEN [d |-> [d EXCEPT ![xi] = @ \ to_remove], revised |-> TRUE]
        ELSE [d |-> d, revised |-> FALSE]

\* Variant: a revision against a fixed peer counts as a change, whether or
\* not it removed a value.
ReviseReportsAlways(d, xi, xj) ==
    LET to_remove == {x \in d[xi] : Cardinality(d[xj]) = 1 /\ x \in d[xj]}
    IN  [d |-> [d EXCEPT ![xi] = @ \ to_remove], revised |-> Cardinality(d[xj]) = 1]

\* Variant: the size tested is the size of the domain of xi.
ReviseWrongSize(d, xi, xj) ==
    LET to_remove == {x \in d[xi] : Cardinality(d[xi]) = 1 /\ x \in d[xj]}
    IN  IF to_remove # {}
        THEN [d |-> [d EXCEPT ![xi] = @ \ to_remove], revised |-> TRUE]
        ELSE [d |-> d, revised |-> FALSE]

\* Variant: a value is removed whenever xj holds it, fixed or not.
ReviseAnyPeer(d, xi, xj) ==
    LET to_remove == {x \in d[xi] : x \in d[xj]}
    IN  IF to_remove # {}
        THEN [d |-> [d EXCEPT ![xi] = @ \ to_remove], revised |-> TRUE]
        ELSE [d |-> d, revised |-> FALSE]

\* revise(domains, xi, xj): d is the assignment after the call.
Revise(d, xi, xj) ==
    LET to_remove == {x \in d[xi] : Cardinality(d[xj]) = 1 /\ x \in d[xj]}
    IN  IF to_remove # {}
        THEN [d |-> [d EXCEPT ![xi] = @ \ to_remove], revised |-> TRUE]
        ELSE [d |-> d, revised |-> FALSE]

ArcsOf(xi, o) ==
    [k \in 1..Len(PeerSeq[o][xi]) |-> <<xi, PeerSeq[o][xi][k]>>]

RECURSIVE FillQueue(_, _)
FillQueue(i, o) ==
    IF i > N * N THEN <<>> ELSE ArcsOf(cells[i], o) \o FillQueue(i + 1, o)

\* Variant: the worklist starts empty.
InitialQueueEmpty == [o \in OrderNames |-> <<>>]

\* The worklist after the two nested loops that fill it.
InitialQueue == [o \in OrderNames |-> FillQueue(1, o)]

\* Variant: nothing is put back into the worklist.
RefillNothing(xi, xj, o) == <<>>

\* for xk in self.peers[xi] - {xj}: queue.append((xk, xi))
Refill(xi, xj, o) ==
    LET ks == SelectSeq(PeerSeq[o][xi], LAMBDA xk : xk # xj)
    IN  [k \in 1..Len(ks) |-> <<ks[k], xi>>]

\* Variant: an emptied domain does not end the loop.
Ac3PopIgnoreWipeout(d, q, o) ==
    LET xi == Head(q)[1]
        xj == Head(q)[2]
        rv == Revise(d, xi, xj)
    IN  IF rv.revised
        THEN [d |-> rv.d, queue |-> Tail(q) \o Refill(xi, xj, o.refill),
              wiped |-> FALSE, revised |-> TRUE]
        ELSE [d |-> d, queue |-> Tail(q), wiped |-> FALSE, revised |-> FALSE]

\* One pass of the while loop of ac3: pop an arc, revise, fail on an empty
\* domain or put the arcs into xi back.
Ac3Pop(d, q, o) ==
    LET xi == Head(q)[1]
        xj == Head(q)[2]
        rv == Revise(d, xi, xj)
    IN  IF rv.revised
        THEN IF rv.d[xi] = {}
             THEN [d |-> rv.d, queue |-> Tail(q), wiped |-> TRUE, revised |-> TRUE]
             ELSE [d |-> rv.d, queue |-> Tail(q) \o Refill(xi, xj, o.refill),
                   wiped |-> FALSE, revised |-> TRUE]
        ELSE [d |-> d, queue |-> Tail(q), wiped |-> FALSE, revised |-> FALSE]

\* The while loop of ac3 makes at most MaxPops passes: the arcs it starts
\* with, and the arcs put back after each of at most N * N * N removals.
MaxPops ==
    LET p == Cardinality(peers[cells[1]])
    IN  N * N * p + N * N * N * (p - 1)

LoopDepth == CHOOSE k \in 0..64 : 2 ^ k >= MaxPops /\ (k = 0 \/ 2 ^ (k - 1) < MaxPops)

\* while queue: up to 2 ^ k passes of the loop from state s, stopping at the
\* return False or at the empty worklist.
RECURSIVE Ac3While(_, _, _)
Ac3While(s, k, o) ==
    IF s.wiped \/ s.queue = <<>> THEN s
    ELSE IF k = 0 THEN Ac3Pop(s.d, s.queue, o)
    ELSE Ac3While(Ac3While(s, k - 1, o), k - 1, o)

Ac3Run(d, q, o) ==
    LET s == Ac3While([d |-> d, queue |-> q, wiped |-> FALSE, revised |-> FALSE],
                      LoopDepth, o)
    IN  [d |-> s.d, ok |-> ~s.wiped]

\* ac3(domains) run to its return: d is the assignment object after the call.
Ac3(d, o) == Ac3Run(d, InitialQueue[o.fill], o)

----------------------------------------------------------------------------
(* Search heuristics: is_solved, select_unassigned_variable,               *)
(* order_domain_values                                                     *)

\* Variant: the size of the assignment is taken for the size of a domain.
IsSolvedNever(d) == \A i \in 1..(N * N) : Cardinality(DOMAIN d) = 1

\* Variant: a domain of several values counts as solved.
IsSolvedNonEmpty(d) == \A i \in 1..(N * N) : Cardinality(d[cells[i]]) >= 1

is_solved(d) == \A i \in 1..(N * N) : Cardinality(d[cells[i]]) = 1

\* Python's order of tuples of integers.
RECURSIVE TupleLess(_, _)
TupleLess(a, b) ==
    IF a = <<>> THEN b # <<>>
    ELSE IF b = <<>> THEN FALSE
    ELSE IF Head(a) # Head(b) THEN Head(a) < Head(b)
    ELSE TupleLess(Tail(a), Tail(b))

\* list.sort() of a list of tuples: insertion into the sorted prefix, an
\* equal element staying behind the ones already there.
RECURSIVE Insert(_, _)
Insert(t, s) ==
    IF s = <<>> THEN <<t>>
    ELSE IF TupleLess(t, Head(s)) THEN <<t>> \o s
    ELSE <<Head(s)>> \o Insert(t, Tail(s))

RECURSIVE SortTuples(_)
SortTuples(s) ==
    IF s = <<>> THEN <<>>
    ELSE Insert(s[Len(s)], SortTuples(SubSeq(s, 1, Len(s) - 1)))

\* Variant: the size of the domain is left out of the order.
SelectFirstOpen(d) ==
    LET open == SelectSeq(cells, LAMBDA cell : Cardinality(d[cell]) > 1)
    IN  IF open = <<>> THEN None ELSE Some(open[1])

\* MRV: the first entry of the sorted list of (size, -peers, cell).
select_unassigned_variable(d) ==
    LET open == SelectSeq(cells, LAMBDA cell : Cardinality(d[cell]) > 1)
        mrv == [k \in 1..Len(open) |->
                   <<Cardinality(d[open[k]]), 0 - Cardinality(peers[open[k]]),
                     open[k][1], open[k][2]>>]
        sorted == SortTuples(mrv)
    IN  IF mrv = <<>> THEN None ELSE Some(<<sorted[1][3], sorted[1][4]>>)

\* Variant: the values sorted by the count alone.
OrderByCountOnly(var, d, o) ==
    LET vals == IterInts(d[var], o)
        counts == [k \in 1..Len(vals) |->
                      <<Cardinality({p \in peers[var] : vals[k] \in d[p]}), k>>]
        sorted == SortTuples(counts)
    IN  [k \in 1..Len(sorted) |-> vals[sorted[k][2]]]

\* Variant: the values sorted the other way round.
OrderDescending(var, d, o) ==
    LET vals == IterInts(d[var], o)
        counts == [k \in 1..Len(vals) |->
                      <<Cardinality({p \in peers[var] : vals[k] \in d[p]}), vals[k]>>]
        sorted == SortTuples(counts)
    IN  [k \in 1..Len(sorted) |-> sorted[Len(sorted) + 1 - k][2]]

\* Variant: only the first value of the order is kept.
OrderFirstOnly(var, d, o) ==
    LET vals == IterInts(d[var], o)
        counts == [k \in 1..Len(vals) |->
                      <<Cardinality({p \in peers[var] : vals[k] \in d[p]}), vals[k]>>]
        sorted == SortTuples(counts)
    IN  <<sorted[1][2]>>

\* LCV: the values of var sorted by (number of peers holding the value, value).
order_domain_values(var, d, o) ==
    LET vals == IterInts(d[var], o)
        counts == [k \in 1..Len(vals) |->
                      <<Cardinality({p \in peers[var] : vals[k] \in d[p]}), vals[k]>>]
        sorted == SortTuples(counts)
    IN  [k \in 1..Len(sorted) |-> sorted[k][2]]

----------------------------------------------------------------------------
(* Objects: deepcopy, assign_and_propagate                                 *)

\* self.domains is the first object ever made.
SelfDomains == 0

FreshRef(h) == CHOOSE r \in 0..Cardinality(DOMAIN h) : r \notin DOMAIN h

\* Variant: no copy is made.
AliasCopy(h, r) == [h |-> h, ref |-> r]

\* deepcopy(domains): a new object with the contents of the old one.
DeepCopy(h, r) ==
    LET new == FreshRef(h)
    IN  [h |-> [x \in DOMAIN h \cup {new} |-> IF x = new THEN h[r] ELSE h[x]],
         ref |-> new]

\* The forward-checking loop over the peers of var, left at the first peer
\* whose domain becomes empty.
RECURSIVE ForwardCheck(_, _, _)
ForwardCheck(d, value, ps) ==
    IF ps = <<>> THEN [d |-> d, wiped |-> FALSE]
    ELSE LET p == Head(ps)
         IN  IF value \in d[p]
             THEN LET d1 == [d EXCEPT ![p] = @ \ {value}]
                  IN  IF d1[p] = {}
                      THEN [d |-> d1, wiped |-> TRUE]
                      ELSE ForwardCheck(d1, value, Tail(ps))
             ELSE ForwardCheck(d, value, Tail(ps))

\* Variant: the chosen value is not written to the copy.
AssignWithoutFixing(h, var, value, domains, o) ==
    LET cp == DeepCopy(h, domains)
        a == Ac3(cp.h[cp.ref], o)
    IN  [h |-> [cp.h EXCEPT ![cp.ref] = a.d],
         ret |-> IF a.ok THEN Some(cp.ref) ELSE None]

\* assign_and_propagate(var, value, domains): h is the heap after the call,
\* ret the reference returned, or None.
assign_and_propagate(h, var, value, domains, o) ==
    LET cp == DeepCopy(h, domains)
        new_domains == cp.ref
        d0 == [cp.h[new_domains] EXCEPT ![var] = {value}]
        fc == ForwardCheck(d0, value, PeerSeq[o.fill][var])
    IN  IF fc.wiped
        THEN [h |-> [cp.h EXCEPT ![new_domains] = fc.d], ret |-> None]
        ELSE LET a == Ac3(fc.d, o)
             IN  [h |-> [cp.h EXCEPT ![new_domains] = a.d],
                  ret |-> IF a.ok THEN Some(new_domains) ELSE None]

\* Objects no longer referenced are freed.
Collect(h, live) == [x \in DOMAIN h \cap live |-> h[x]]

----------------------------------------------------------------------------
(* Input puzzles.  Five families of N x N grids:                           *)
(*   - any values 0..N in the first NumClueCells cells of ClueSeq, blank   *)
(*     elsewhere (few clues; duplicates and clashes included);             *)
(*   - a solved grid with any of the first NumHoles cells of HoleSeq       *)
(*     blanked (proper puzzles);                                           *)
(*   - a solved grid with at most MaxEdits cells overwritten by any value  *)
(*     0..N (nearly full grids, valid or not);                             *)
(*   - every solved grid;                                                  *)
(*   - three chosen puzzles under every renaming of the values.            *)

ClueSeq == << <<0, 0>>, <<0, 1>>, <<2, 2>>, <<3, 2>>, <<1, 3>>, <<2, 0>> >>

HoleSeq == << <<0, 0>>, <<1, 1>>, <<2, 2>>, <<3, 3>>, <<0, 2>>, <<1, 3>>,
              <<2, 0>>, <<3, 1>>, <<0, 1>>, <<1, 0>> >>

SeqRange(s, n) == {s[i] : i \in 1..n}

\* A solved grid: every row is the first row shifted.
Seed ==
    [cell \in CellSet |->
        ((Box * (cell[1] % Box) + (cell[1] \div Box) + cell[2]) % N) + 1]

SparseGrids ==
    LET cs == SeqRange(ClueSeq, NumClueCells)
    IN  {[cell \in CellSet |-> IF cell \in cs THEN f[cell] ELSE 0] : f \in [cs -> 0..N]}

HoledGrids ==
    {[cell \in CellSet |-> IF cell \in hs THEN 0 ELSE Seed[cell]] :
        hs \in SUBSET SeqRange(HoleSeq, NumHoles)}

RECURSIVE Edited(_, _)
Edited(S, k) ==
    IF k = 0 THEN S
    ELSE Edited(S \cup {[g EXCEPT ![cell] = v] : g \in S, cell \in CellSet, v \in 0..N},
                k - 1)

EditedGrids == Edited({Seed}, MaxEdits)

\* Every solved grid: the cells are filled in row-major order with a value
\* that no peer filled before holds.
RECURSIVE FillFrom(_, _)
FillFrom(S, i) ==
    IF i > N * N THEN S
    ELSE FillFrom({Append(p, v) : p \in S, v \in Digits} \
                  {Append(p, p[j]) : p \in S,
                                     j \in {k \in 1..(i - 1) : cells[k] \in peers[cells[i]]}},
                  i + 1)

AllSolved == {[cell \in CellSet |-> p[CellIndex(cell) + 1]] : p \in FillFrom({<<>>}, 1)}

\* Three puzzles: one is solved only after a value was dropped; in the second
\* a blank cell sees every value among its peers; in the third, every cell
\* but two holds a clue, no clue is repeated in a row, column or box, and
\* each of the two blank cells sees every value among its peers.
DropPuzzle ==
    [cell \in CellSet |->
        CASE cell = <<0, 0>> -> 3
          [] cell = <<0, 3>> -> 1
          [] cell = <<1, 1>> -> 1
          [] cell = <<3, 1>> -> 3
          [] cell = <<3, 3>> -> 2
          [] OTHER -> 0]

BlockedPuzzle ==
    [cell \in CellSet |->
        IF cell[1] = 0 /\ cell[2] > 0 THEN cell[2]
        ELSE IF cell = <<Box, 0>> THEN N
        ELSE 0]

TwinBlockedPuzzle ==
    LET rows == << <<0, 1, 2, 3>>, <<2, 0, 1, 4>>, <<1, 3, 4, 2>>, <<4, 2, 3, 1>> >>
    IN  [cell \in CellSet |->
            IF cell[1] < 4 /\ cell[2] < 4 THEN rows[cell[1] + 1][cell[2] + 1] ELSE 0]

Relabelings == {f \in [Digits -> Digits] : \A v \in Digits : \E w \in Digits : f[w] = v}

RelabelledGrids ==
    {[cell \in CellSet |-> IF g[cell] = 0 THEN 0 ELSE f[g[cell]]] :
        g \in {DropPuzzle, BlockedPuzzle, TwinBlockedPuzzle}, f \in Relabelings}

Inputs == SparseGrids \cup HoledGrids \cup EditedGrids \cup AllSolved \cup RelabelledGrids

----------------------------------------------------------------------------
(* The program: solve() and backtrack() as steps over the call stack       *)

Frame(fn, domains, var, values, pc) ==
    [fn |-> fn, domains |-> domains, var |-> var, values |-> values, pc |-> pc]

Top == stack[Len(stack)]

Pop(st) == SubSeq(st, 1, Len(st) - 1)

SetTop(st, f) == [st EXCEPT ![Len(st)] = f]

\* The references held by the frames of st, by the returned value r and by
\* the solver object.
Live(st, r) == {SelfDomains} \cup {st[i].domains : i \in 1..Len(st)} \cup r

\* The program is in mode m and the innermost frame is a call of fn at pc.
At(m, fn, pc) == mode = m /\ stack # <<>> /\ Top.fn = fn /\ Top.pc = pc

DefaultOrder == [fill |-> "asc", refill |-> "asc", vals |-> "asc"]

\* The state after SudokuCSP(grid).
Init ==
    /\ grid \in Inputs
    /\ heap = [x \in {SelfDomains} |-> InitializeDomains(grid)]
    /\ stack = <<>>
    /\ ret = None
    /\ mode = "ready"
    /\ result = None
    /\ ord = DefaultOrder
    /\ queue = <<>>
    /\ runs = 0
    /\ prev = None
    /\ trials = 0
    /\ failed = 0
    /\ revisions = 0

\* solve() is called: copy self.domains, run ac3 on the copy, return None if
\* it fails, call backtrack otherwise.
Solve_Start(o) ==
    /\ mode \in {"ready", "done"}
    /\ runs < MaxRuns
    /\ \E cp \in {DeepCopy(heap, SelfDomains)} : \E a \in {Ac3(cp.h[cp.ref], o)} :
       LET domains == cp.ref
           h1 == [cp.h EXCEPT ![domains] = a.d]
       IN  IF ~a.ok
           THEN /\ stack' = <<>>
                /\ mode' = "done"
                /\ heap' = Collect(h1, Live(<<>>, None))
           ELSE /\ stack' = <<Frame("solve", domains, None, <<>>, "wait"),
                              Frame("backtrack", domains, None, <<>>, "enter")>>
                /\ mode' = "run"
                /\ heap' = h1
    /\ result' = None
    /\ ret' = None
    /\ ord' = o
    /\ runs' = runs + 1
    /\ prev' = result
    /\ trials' = 0
    /\ failed' = 0
    /\ UNCHANGED <<grid, queue, revisions>>

\* backtrack(domains) up to the for loop: return domains if solved, None if
\* no variable is left, else fix the variable and the order of its values.
Backtrack_Enter ==
    /\ At("run", "backtrack", "enter")
    /\ LET d == heap[Top.domains]
           var == select_unassigned_variable(d)
       IN  IF is_solved(d)
           THEN /\ stack' = Pop(stack)
                /\ ret' = Some(Top.domains)
                /\ mode' = "ret"
           ELSE IF var = None
           THEN /\ stack' = Pop(stack)
                /\ ret' = None
                /\ mode' = "ret"
           ELSE /\ stack' = SetTop(stack,
                        Frame("backtrack", Top.domains, var,
                              order_domain_values(The(var), d, ord.vals), "loop"))
                /\ ret' = None
                /\ mode' = "run"
    /\ heap' = Collect(heap, Live(stack', ret'))
    /\ UNCHANGED <<grid, result, ord, queue, runs, prev, trials, failed, revisions>>

\* One pass of the for loop up to the recursive call: try the next value.
Backtrack_Try ==
    /\ At("run", "backtrack", "loop")
    /\ Top.values # <<>>
    /\ \E r \in {assign_and_propagate(heap, The(Top.var), Head(Top.values),
                                      Top.domains, ord)} :
       LET rest == Tail(Top.values)
       IN  /\ IF r.ret = None
              THEN stack' = SetTop(stack,
                       Frame("backtrack", Top.domains, Top.var, rest, "loop"))
              ELSE stack' = Append(
                       SetTop(stack, Frame("backtrack", Top.domains, Top.var, rest, "wait")),
                       Frame("backtrack", The(r.ret), None, <<>>, "enter"))
           /\ heap' = Collect(r.h, Live(stack', None))
           /\ failed' = IF r.ret = None THEN failed + 1 ELSE failed
    /\ trials' = trials + 1
    /\ UNCHANGED <<grid, ret, mode, result, ord, queue, runs, prev, revisions>>

\* The for loop is over: return None.
Backtrack_Exhausted ==
    /\ At("run", "backtrack", "loop")
    /\ Top.values = <<>>
    /\ stack' = Pop(stack)
    /\ ret' = None
    /\ mode' = "ret"
    /\ heap' = Collect(heap, Live(stack', ret'))
    /\ UNCHANGED <<grid, result, ord, queue, runs, prev, trials, failed, revisions>>

\* Variant: after a success the loop goes on while values are left.
Backtrack_ResumeKeepsTrying ==
    /\ At("ret", "backtrack", "wait")
    /\ IF ret # None /\ Top.values = <<>>
       THEN /\ stack' = Pop(stack)
            /\ ret' = ret
            /\ mode' = "ret"
            /\ failed' = failed
       ELSE /\ stack' = SetTop(stack,
                    Frame("backtrack", Top.domains, Top.var, Top.values, "loop"))
            /\ ret' = None
            /\ mode' = "run"
            /\ failed' = IF ret = None THEN failed + 1 ELSE failed
    /\ heap' = Collect(heap, Live(stack', ret'))
    /\ UNCHANGED <<grid, result, ord, queue, runs, prev, trials, revisions>>

\* The recursive call returned: pass a result up at once, else go on with
\* the loop.
Backtrack_Resume ==
    /\ At("ret", "backtrack", "wait")
    /\ IF ret # None
       THEN /\ stack' = Pop(stack)
            /\ ret' = ret
            /\ mode' = "ret"
            /\ failed' = failed
       ELSE /\ stack' = SetTop(stack,
                    Frame("backtrack", Top.domains, Top.var, Top.values, "loop"))
            /\ ret' = None
            /\ mode' = "run"
            /\ failed' = failed + 1
    /\ heap' = Collect(heap, Live(stack', ret'))
    /\ UNCHANGED <<grid, result, ord, queue, runs, prev, trials, revisions>>

\* Variant: row and column are exchanged.
SolvedGridTransposed(sol) ==
    [cell \in CellSet |->
        IF Cardinality(sol[<<cell[2], cell[1]>>]) = 1
        THEN The(sol[<<cell[2], cell[1]>>]) ELSE 0]

\* The grid solve() builds from the assignment sol.
solved_grid(sol) ==
    [cell \in CellSet |-> IF Cardinality(sol[cell]) = 1 THEN The(sol[cell]) ELSE 0]

\* backtrack returned to solve(): return None or the solved grid.
Solve_Finish ==
    /\ At("ret", "solve", "wait")
    /\ result' = IF ret = None THEN None ELSE Some(solved_grid(heap[The(ret)]))
    /\ stack' = <<>>
    /\ ret' = None
    /\ mode' = "done"
    /\ heap' = Collect(heap, Live(<<>>, None))
    /\ UNCHANGED <<grid, ord, queue, runs, prev, trials, failed, revisions>>

Next ==
    \/ \E o \in Orders : Solve_Start(o)
    \/ Backtrack_Enter
    \/ Backtrack_Try
    \/ Backtrack_Exhausted
    \/ Backtrack_Resume
    \/ Solve_Finish

Spec == Init /\ [][Next]_vars

----------------------------------------------------------------------------
(* ac3 on its own: a caller hands an assignment to ac3(domains), step by   *)
(* step through the while loop, and calls it again on the same object.     *)

\* An assignment that holds the clues of g and leaves every blank cell open.
OpenDomains(g) == [cell \in CellSet |-> IF g[cell] \in Digits THEN {g[cell]} ELSE Digits]

\* The grids of S with at most k more cells blanked.
RECURSIVE Blanked(_, _)
Blanked(S, k) ==
    IF k = 0 THEN S
    ELSE Blanked(S \cup {[g EXCEPT ![cell] = 0] : g \in S, cell \in CellSet}, k - 1)

BlankedGrids == Blanked({Seed}, MaxBlanks)

\* The assignments handed to ac3: the initial domains of nearly full grids
\* and of the chosen puzzles, the solved grid as singletons with any sets of
\* values, empty or not, in the first NumFreeCells cells of HoleSeq, and the
\* clues of a puzzle with every blank cell open, for the proper puzzles, the
\* chosen puzzles and the solved grid with at most MaxBlanks cells blanked.
Ac3Inputs ==
    {InitializeDomains(g) : g \in EditedGrids \cup RelabelledGrids}
    \cup {[cell \in CellSet |->
              IF cell \in SeqRange(HoleSeq, NumFreeCells) THEN f[cell] ELSE {Seed[cell]}] :
            f \in [SeqRange(HoleSeq, NumFreeCells) -> SUBSET Digits]}
    \cup {OpenDomains(g) : g \in HoledGrids \cup RelabelledGrids \cup BlankedGrids}

\* ac3 never iterates over a set of values.
Ac3Orders == {o \in Orders : o.vals = "asc"}

InitAc3 ==
    /\ grid = Seed
    /\ heap \in {[x \in {SelfDomains} |-> d] : d \in Ac3Inputs}
    /\ stack = <<>>
    /\ ret = None
    /\ mode = "ready"
    /\ result = FALSE
    /\ ord = DefaultOrder
    /\ queue = <<>>
    /\ runs = 0
    /\ prev = [ok |-> FALSE, d |-> heap[SelfDomains]]
    /\ trials = 0
    /\ failed = 0
    /\ revisions = 0

\* ac3(domains) is called: the worklist is filled with every arc.  prev
\* keeps what the call before returned and the assignment it left.
Ac3_Start(o) ==
    /\ mode \in {"ready", "done"}
    /\ runs < MaxRuns
    /\ queue' = InitialQueue[o.fill]
    /\ ord' = o
    /\ mode' = "ac3"
    /\ runs' = runs + 1
    /\ prev' = [ok |-> result, d |-> heap[SelfDomains]]
    /\ revisions' = 0
    /\ UNCHANGED <<grid, heap, stack, ret, result, trials, failed>>

\* One pass of the while loop; return False when a domain became empty.
Ac3_Pop ==
    /\ mode = "ac3"
    /\ queue # <<>>
    /\ \E s \in {Ac3Pop(heap[SelfDomains], queue, ord)} :
          /\ heap' = [heap EXCEPT ![SelfDomains] = s.d]
          /\ revisions' = IF s.revised THEN revisions + 1 ELSE revisions
          /\ IF s.wiped
             THEN /\ queue' = <<>>
                  /\ result' = FALSE
                  /\ mode' = "done"
             ELSE /\ queue' = s.queue
                  /\ result' = result
                  /\ mode' = "ac3"
    /\ UNCHANGED <<grid, stack, ret, ord, runs, prev, trials, failed>>

\* The worklist is empty: return True.
Ac3_Return ==
    /\ mode = "ac3"
    /\ queue = <<>>
    /\ result' = TRUE
    /\ mode' = "done"
    /\ UNCHANGED <<grid, heap, stack, ret, ord, queue, runs, prev, trials, failed, revisions>>

NextAc3 ==
    \/ \E o \in Ac3Orders : Ac3_Start(o)
    \/ Ac3_Pop
    \/ Ac3_Return

SpecAc3 == InitAc3 /\ [][NextAc3]_vars

\* A call of ac3 that has begun goes on: the loop takes its next pass while
\* the worklist holds an arc, and the call returns when it holds none.
SpecAc3Fair == SpecAc3 /\ WF_vars(Ac3_Pop) /\ WF_vars(Ac3_Return)

----------------------------------------------------------------------------
(* revise on its own: one call revise(domains, xi, xj) on an arc.          *)

\* The assignments handed to revise: the solved grid as singletons with any
\* sets of values, empty or not, in the first NumFreeCells cells of HoleSeq.
ReviseInputs ==
    {[cell \in CellSet |->
         IF cell \in SeqRange(HoleSeq, NumFreeCells) THEN f[cell] ELSE {Seed[cell]}] :
       f \in [SeqRange(HoleSeq, NumFreeCells) -> SUBSET Digits]}

InitRevise ==
    /\ grid = Seed
    /\ heap \in {[x \in {SelfDomains} |-> d] : d \in ReviseInputs}
    /\ stack = <<>>
    /\ ret = None
    /\ mode = "ready"
    /\ result = FALSE
    /\ ord = DefaultOrder
    /\ queue = <<>>
    /\ runs = 0
    /\ prev = [d |-> heap[SelfDomains], xi |-> cells[1], xj |-> cells[1]]
    /\ trials = 0
    /\ failed = 0
    /\ revisions = 0

\* revise(domains, xi, xj) is called and returns.  prev keeps the assignment
\* and the arc of the call.
Revise_Call(xi, xj) ==
    /\ mode = "ready"
    /\ \E rv \in {Revise(heap[SelfDomains], xi, xj)} :
          /\ heap' = [heap EXCEPT ![SelfDomains] = rv.d]
          /\ result' = rv.revised
    /\ prev' = [d |-> heap[SelfDomains], xi |-> xi, xj |-> xj]
    /\ mode' = "done"
    /\ runs' = runs + 1
    /\ UNCHANGED <<grid, stack, ret, ord, queue, trials, failed, revisions>>

NextRevise == \E xi \in CellSet : \E xj \in peers[xi] : Revise_Call(xi, xj)

SpecRevise == InitRevise /\ [][NextRevise]_vars

----------------------------------------------------------------------------
(* The heuristics on their own: one call of select_unassigned_variable or  *)
(* of order_domain_values on an assignment.                                *)

\* The assignments handed to the heuristics: those handed to ac3, and the
\* solved grid as singletons with any sets of values in the first
\* NumOpenCells cells of HoleSeq.
HeuristicInputs ==
    Ac3Inputs
    \cup {[cell \in CellSet |->
              IF cell \in SeqRange(HoleSeq, NumOpenCells) THEN f[cell] ELSE {Seed[cell]}] :
            f \in [SeqRange(HoleSeq, NumOpenCells) -> SUBSET Digits]}

InitHeuristics ==
    /\ grid = Seed
    /\ heap \in {[x \in {SelfDomains} |-> d] : d \in HeuristicInputs}
    /\ stack = <<>>
    /\ ret = None
    /\ mode = "ready"
    /\ result = None
    /\ ord = DefaultOrder
    /\ queue = <<>>
    /\ runs = 0
    /\ prev = cells[1]
    /\ trials = 0
    /\ failed = 0
    /\ revisions = 0

\* select_unassigned_variable(domains) is called and returns.
Select_Call ==
    /\ mode = "ready"
    /\ result' = select_unassigned_variable(heap[SelfDomains])
    /\ mode' = "selected"
    /\ runs' = runs + 1
    /\ UNCHANGED <<grid, heap, stack, ret, ord, queue, prev, trials, failed, revisions>>

\* order_domain_values(var, domains) is called and returns; the set
\* domains[var] is iterated in order o.  prev keeps var.
Order_Call(var, o) ==
    /\ mode = "ready"
    /\ result' = order_domain_values(var, heap[SelfDomains], o)
    /\ ord' = [ord EXCEPT !.vals = o]
    /\ prev' = var
    /\ mode' = "ordered"
    /\ runs' = runs + 1
    /\ UNCHANGED <<grid, heap, stack, ret, queue, trials, failed, revisions>>

NextHeuristics ==
    \/ Select_Call
    \/ \E var \in CellSet : \E o \in OrderNames : Order_Call(var, o)

SpecHeuristics == InitHeuristics /\ [][NextHeuristics]_vars

----------------------------------------------------------------------------
(* What the claims speak of *)

Rows == {{<<r, c>> : c \in 0..(N - 1)} : r \in 0..(N - 1)}

Cols == {{<<r, c>> : r \in 0..(N - 1)} : c \in 0..(N - 1)}

Boxes ==
    {{<<Box * i + r, Box * j + c>> : r \in 0..(Box - 1), c \in 0..(Box - 1)} :
        i \in 0..(Box - 1), j \in 0..(Box - 1)}

Units == Rows \cup Cols \cup Boxes

\* Each of 1..N exactly once in unit u of grid g.
ExactlyOnce(g, u) == \A v \in Digits : Cardinality({cell \in u : g[cell] = v}) = 1

ValidGrid(g) == \A u \in Units : ExactlyOnce(g, u)

IsClue(v) == v \in Digits

\* The solved grids that keep every clue of g.
Completions(g) ==
    {sol \in AllSolved : \A cell \in CellSet : IsClue(g[cell]) => sol[cell] = g[cell]}

\* Two cells of one row, column or box hold the same clue.
HasDuplicateClue(g) ==
    \E u \in Units : \E x \in u : \E y \in u \ {x} : IsClue(g[x]) /\ g[x] = g[y]

Returned == mode = "done" /\ runs > 0

ReturnedGrid == Returned /\ result # None

AllDesc == [fill |-> "desc", refill |-> "desc", vals |-> "desc"]

----------------------------------------------------------------------------
(* Claims about solve() *)

\* C1 (Validity): whenever solve() returns a grid, every row, every column
\* and every box of that grid holds each of 1..N exactly once.
C1_Validity == ReturnedGrid => ValidGrid(The(result))

\* A grid was returned after a search that had to drop a value.
C1_Witness ==
    /\ ReturnedGrid
    /\ failed > 0

\* C2 (Fidelity): whenever solve() returns a grid, every cell that holds a
\* clue in the input holds the same value in the returned grid.
C2_Fidelity ==
    ReturnedGrid => \A cell \in CellSet : IsClue(grid[cell]) => The(result)[cell] = grid[cell]

\* A grid was returned for a puzzle with clues and blanks that needed search.
C2_Witness ==
    /\ ReturnedGrid
    /\ trials > 0
    /\ Cardinality({cell \in CellSet : IsClue(grid[cell])}) >= NumClueCells
    /\ \E cell \in CellSet : grid[cell] = 0

C4_DuplicateClue == (Returned /\ HasDuplicateClue(grid)) => result = None

\* None was returned for a full grid with a duplicated clue.
C4_Witness ==
    /\ Returned
    /\ HasDuplicateClue(grid)
    /\ result = None
    /\ \A cell \in CellSet : grid[cell] # 0

\* C5 (Output totality): a solve() under way is never stuck (it stands in
\* backtrack or at a return to backtrack or to solve), and it ends with None
\* or with a grid of values 1..N (no 0); backtrack returns only None or an
\* assignment of singletons.
C5_OutputTotality ==
    /\ mode \in {"ready", "run", "ret", "done"}
    /\ mode = "run" => (At("run", "backtrack", "enter") \/ At("run", "backtrack", "loop"))
    /\ mode = "ret" => (At("ret", "backtrack", "wait") \/ At("ret", "solve", "wait"))
    /\ Returned =>
          \/ result = None
          \/ /\ Cardinality(result) = 1
             /\ DOMAIN The(result) = CellSet
             /\ \A cell \in CellSet : The(result)[cell] \in Digits
    /\ (mode = "ret" /\ ret # None) => is_solved(heap[The(ret)])

\* None was returned after a search that started with an empty domain.
C5_Witness ==
    /\ Returned
    /\ result = None
    /\ trials > N
    /\ \E cell \in CellSet : heap[SelfDomains][cell] = {}

\* C6 (Determinism): a second solve() of the same puzzle returns what the
\* first returned, whatever the iteration orders of the two runs.
C6_Determinism == (Returned /\ runs > 1) => result = prev

\* The second run, in the descending orders, returned a grid after a search
\* in a puzzle with several completions.
C6_Witness ==
    /\ Returned
    /\ runs > 1
    /\ ord = AllDesc
    /\ result # None
    /\ failed > 0
    /\ Cardinality(Completions(grid)) > 1

\* C8 (Branch isolation): no step of solve() or backtrack() changes an
\* assignment that exists before the step, nor the puzzle, nor self.domains.
C8_BranchIsolation ==
    [][/\ \A r \in DOMAIN heap \cap DOMAIN heap' : heap'[r] = heap[r]
       /\ grid' = grid
       /\ SelfDomains \in DOMAIN heap'
       /\ \A i \in 1..Len(stack) : i <= Len(stack') => stack'[i].domains = stack[i].domains]_vars

\* A value failed and the loop stands before the next value of the same
\* variable.
C8_Witness ==
    /\ mode = "run"
    /\ stack # <<>>
    /\ Top.pc = "loop"
    /\ Top.values # <<>>
    /\ Len(Top.values) < Cardinality(heap[Top.domains][The(Top.var)])
    /\ failed > 0
    /\ Len(stack) > 2

\* C9 (Already solved): for a full valid grid solve() returns the grid
\* itself and tries no value.
C9_AlreadySolved ==
    (Returned /\ grid \in [CellSet -> Digits] /\ ValidGrid(grid)) =>
        (result = Some(grid) /\ trials = 0)

\* A full valid grid other than the seed was returned.
C9_Witness ==
    /\ Returned
    /\ ValidGrid(grid)
    /\ grid # Seed
    /\ result = Some(grid)

\* C10 (Empty grid): for the all-zero grid solve() returns a grid, and the
\* grid is valid.
C10_EmptyGrid ==
    (Returned /\ \A cell \in CellSet : grid[cell] = 0) =>
        (result # None /\ ValidGrid(The(result)))

\* A grid was returned for the all-zero grid.
C10_Witness ==
    /\ ReturnedGrid
    /\ \A cell \in CellSet : grid[cell] = 0
    /\ trials > 0

\* C11 (No empty domain reaches the search): whenever backtrack is entered,
\* no cell of its assignment has an empty domain, and unless the assignment
\* is all singletons select_unassigned_variable finds a cell (the branch
\* 'var is None' is not taken).
C11_NoEmptyDomainInSearch ==
    At("run", "backtrack", "enter") =>
        LET d == heap[Top.domains]
        IN  /\ \A cell \in CellSet : d[cell] # {}
            /\ ~is_solved(d) => select_unassigned_variable(d) # None

\* The number of cells of d whose domain is a singleton.
Singletons(d) == Cardinality({cell \in CellSet : Cardinality(d[cell]) = 1})

\* The number of calls of backtrack open in the call stack st.
Depth(st) == Cardinality({i \in 1..Len(st) : st[i].fn = "backtrack"})

\* How far a call is from its return: a call that has just been entered
\* ranks above every other, a call in its loop by the values it has left,
\* and a call waiting for its callee just above the loop it comes back to.
FrameRank(f) ==
    IF f.pc = "enter" THEN 2 * N + 3
    ELSE IF f.pc = "loop" THEN 2 * Len(f.values) + 1
    ELSE 2 * Len(f.values) + 2

Ranks(st) == [i \in 1..Len(st) |-> FrameRank(st[i])]

\* C15 (Search termination and depth bound): every step of a solve() under
\* way brings the call stack nearer to the return (the ranks of its calls,
\* outermost first, go down in the order of tuples, which has no endless
\* descent over stacks of bounded depth); at most N * N calls of backtrack
\* are open at a time; and every open call of backtrack has an assignment
\* with more singleton cells than the assignment of its caller.
C15_SearchTermination ==
    [][(mode = "run" \/ mode = "ret") =>
          /\ TupleLess(Ranks(stack'), Ranks(stack))
          /\ Depth(stack') <= N * N
          /\ \A i \in 1..(Len(stack') - 1) :
                 (stack'[i].fn = "backtrack" /\ stack'[i + 1].fn = "backtrack") =>
                     Singletons(heap'[stack'[i + 1].domains])
                         > Singletons(heap'[stack'[i].domains])]_vars

\* Three calls of backtrack are open, after a value had failed.
C15_Witness ==
    /\ Depth(stack) >= 3
    /\ failed > 0

\* The grid g takes every value from the assignment d.
Within(g, d) == \A cell \in CellSet : g[cell] \in d[cell]

\* C16 (Propagation preserves solutions): when backtrack tries value v for
\* var in assignment D, every valid grid within D that has v at var makes
\* assign_and_propagate succeed and lies within the assignment it returns;
\* and every valid grid within self.domains makes the ac3 of solve() succeed
\* and lies within the assignment it leaves.
C16_KeepsSolutions ==
    [][/\ trials' = trials + 1 =>
             \A g \in AllSolved :
                 (g[The(Top.var)] = Head(Top.values) /\ Within(g, heap[Top.domains])) =>
                     /\ Len(stack') > Len(stack)
                     /\ Within(g, heap'[stack'[Len(stack')].domains])
       /\ runs' = runs + 1 =>
             \A g \in AllSolved :
                 Within(g, heap[SelfDomains]) =>
                     /\ mode' = "run"
                     /\ Within(g, heap'[stack'[Len(stack')].domains])]_vars

\* A value was tried that a valid grid has, and the assignment returned
\* still has open cells and holds more than one valid grid.
C16_Witness ==
    /\ At("run", "backtrack", "enter")
    /\ Depth(stack) >= 2
    /\ ~is_solved(heap[Top.domains])
    /\ Cardinality({g \in AllSolved : Within(g, heap[Top.domains])}) > 1

\* The sequence s is the end of the sequence t.
IsSuffix(s, t) == Len(s) <= Len(t) /\ s = SubSeq(t, Len(t) - Len(s) + 1, Len(t))

\* The values of the variable of frame f over heap h in LCV order.
LcvOf(f, h) == order_domain_values(The(f.var), h[f.domains], ord.vals)

\* The value the loop of frame f took last.
LastTried(f, h) == LcvOf(f, h)[Len(LcvOf(f, h)) - Len(f.values)]

\* C18 (First success wins, failure only on exhaustion): the values a call
\* of backtrack has left are the end of the LCV order of its variable, so
\* the values are tried one at a time in that order; when the recursive call
\* returns an assignment, backtrack returns that assignment at once, tries
\* nothing more, and the assignment has the value tried last at the
\* variable; and a call in its loop returns None only when no value is left.
C18_FirstSuccessWins ==
    [][/\ \A i \in 1..Len(stack') :
             (stack'[i].fn = "backtrack" /\ stack'[i].pc \in {"loop", "wait"}) =>
                 IsSuffix(stack'[i].values, LcvOf(stack'[i], heap'))
       /\ (At("ret", "backtrack", "wait") /\ ret # None) =>
             /\ stack' = Pop(stack)
             /\ ret' = ret
             /\ mode' = "ret"
             /\ trials' = trials
             /\ heap[The(ret)][The(Top.var)] = {LastTried(Top, heap)}
       /\ (At("run", "backtrack", "loop") /\ mode' = "ret" /\ ret' = None) =>
             /\ Top.values = <<>>
             /\ stack' = Pop(stack)]_vars

\* A recursive call has returned an assignment to a call that has values
\* left, in a search in which a value had failed.
C18_Witness ==
    /\ At("ret", "backtrack", "wait")
    /\ ret # None
    /\ Top.values # <<>>
    /\ failed > 0

----------------------------------------------------------------------------
(* Claims about ac3 *)

\* C7 (AC-3 idempotence): a second ac3 on the assignment the first one left
\* returns what the first returned and removes no value.
C7_Idempotence ==
    (mode = "done" /\ runs > 1) => (result = prev.ok /\ heap[SelfDomains] = prev.d)

\* The same, for a first run that returned True.
C7_IdempotenceAfterSuccess ==
    (mode = "done" /\ runs > 1 /\ prev.ok) => (result /\ heap[SelfDomains] = prev.d)

\* An ac3 call has returned True.
Ac3Succeeded == mode = "done" /\ runs > 0 /\ result = TRUE

\* C12 (AC-3 fixed point): when ac3 has returned True, no domain holds the
\* value of a peer whose domain is a singleton.
C12_FixedPoint ==
    Ac3Succeeded =>
        \A xi \in CellSet : \A xj \in peers[xi] :
            Cardinality(heap[SelfDomains][xj]) = 1 =>
                heap[SelfDomains][xj] \cap heap[SelfDomains][xi] = {}

\* ac3 returned True after revisions that went beyond the arcs it started
\* with, and left a cell open.
C12_Witness ==
    /\ Ac3Succeeded
    /\ revisions > N
    /\ \E cell \in CellSet : Cardinality(heap[SelfDomains][cell]) > 1

\* C13 (AC-3 wipeout detection): a pass of the loop of ac3 ends the call with
\* False exactly when it takes the last value of a domain, so the call stops
\* at the first such revision; and when ac3 returns True, every domain that
\* was non-empty when ac3 was entered is still non-empty.
C13_WipeoutDetection ==
    [][mode = "ac3" =>
          /\ (\E cell \in CellSet :
                  heap[SelfDomains][cell] # {} /\ heap'[SelfDomains][cell] = {})
                 <=> (mode' = "done" /\ result' = FALSE)
          /\ (mode' = "done" /\ result' = TRUE) =>
                 \A cell \in CellSet :
                     prev.d[cell] # {} => heap'[SelfDomains][cell] # {}]_vars

\* ac3 returned False after several revisions, on an assignment that had no
\* empty domain when the call began.
C13_Witness ==
    /\ mode = "done"
    /\ runs = 1
    /\ result = FALSE
    /\ revisions > 2
    /\ \A cell \in CellSet : prev.d[cell] # {}
    /\ \E cell \in CellSet : heap[SelfDomains][cell] = {}

\* The number of candidates of an assignment.
RECURSIVE Candidates(_, _)
Candidates(d, i) ==
    IF i > N * N THEN 0 ELSE Cardinality(d[cells[i]]) + Candidates(d, i + 1)

\* C14 (AC-3 termination): every call of ac3 returns; a pass of its loop
\* lengthens the worklist only when it takes a value from a domain, and no
\* pass adds a value; and the revisions of one call that change a domain are
\* at most N * N * N, the number of candidates there can be.
C14_Termination ==
    /\ (mode = "ac3") ~> (mode = "done")
    /\ [][(mode = "ac3" /\ queue # <<>>) =>
             /\ Candidates(heap'[SelfDomains], 1) <= Candidates(heap[SelfDomains], 1)
             /\ Len(queue') >= Len(queue) =>
                    Candidates(heap'[SelfDomains], 1) < Candidates(heap[SelfDomains], 1)
             /\ revisions' <= N * N * N]_vars

\* ac3 returned True after more revisions than the board has rows, with
\* arcs put back on the way.
C14_Witness ==
    /\ Ac3Succeeded
    /\ revisions > 2 * N

\* C16, for ac3 on any assignment: every valid grid within the assignment
\* ac3 was given lies within the assignment it leaves, and ac3 returns True
\* when there is such a grid.
C16_Ac3KeepsSolutions ==
    (mode = "done" /\ runs = 1) =>
        \A g \in AllSolved : Within(g, prev.d) => (result = TRUE /\ Within(g, heap[SelfDomains]))

----------------------------------------------------------------------------
(* Claims about revise *)

----------------------------------------------------------------------------
(* Claims about the heuristics *)

\* The cells of d with more than one value.
OpenCells(d) == {cell \in CellSet : Cardinality(d[cell]) > 1}

\* C19 (MRV selection): select_unassigned_variable returns None exactly when
\* no cell has more than one value; otherwise it returns a cell with more
\* than one value, no such cell has fewer values, and no such cell with as
\* many values comes before it in row-major order.
C19_MRV ==
    mode = "selected" =>
        LET d == heap[SelfDomains]
        IN  /\ result = None <=> OpenCells(d) = {}
            /\ result # None =>
                   /\ Cardinality(result) = 1
                   /\ The(result) \in OpenCells(d)
                   /\ \A c \in OpenCells(d) :
                          \/ Cardinality(d[c]) > Cardinality(d[The(result)])
                          \/ /\ Cardinality(d[c]) = Cardinality(d[The(result)])
                             /\ CellIndex(c) >= CellIndex(The(result))

\* The cell returned comes after a cell with more values and before a cell
\* with as many values.
C19_Witness ==
    /\ mode = "selected"
    /\ result # None
    /\ \E c \in OpenCells(heap[SelfDomains]) :
           /\ CellIndex(c) < CellIndex(The(result))
           /\ Cardinality(heap[SelfDomains][c]) > Cardinality(heap[SelfDomains][The(result)])
    /\ \E c \in OpenCells(heap[SelfDomains]) :
           /\ CellIndex(c) > CellIndex(The(result))
           /\ Cardinality(heap[SelfDomains][c]) = Cardinality(heap[SelfDomains][The(result)])

\* The number of peers of var that hold value v in d.
PeerCount(var, v, d) == Cardinality({p \in peers[var] : v \in d[p]})

\* C20 (LCV ordering): order_domain_values(var, domains) returns the values
\* of the domain of var, each once, a value held by fewer peers of var
\* before a value held by more, and of two values held by as many peers the
\* smaller first.
C20_LCV ==
    mode = "ordered" =>
        LET d == heap[SelfDomains]
        IN  /\ Len(result) = Cardinality(d[prev])
            /\ {result[k] : k \in 1..Len(result)} = d[prev]
            /\ \A j \in 1..Len(result) : \A k \in (j + 1)..Len(result) :
                   \/ PeerCount(prev, result[j], d) < PeerCount(prev, result[k], d)
                   \/ /\ PeerCount(prev, result[j], d) = PeerCount(prev, result[k], d)
                      /\ result[j] < result[k]

\* Three or more values were ordered, two of them held by as many peers and
\* the larger value held by fewer peers than a smaller one, with the set
\* iterated from its largest value.
C20_Witness ==
    /\ mode = "ordered"
    /\ ord.vals = "desc"
    /\ Len(result) >= 3
    /\ \E j \in 1..(Len(result) - 1) :
           PeerCount(prev, result[j], heap[SelfDomains])
               = PeerCount(prev, result[j + 1], heap[SelfDomains])
    /\ \E j \in 1..(Len(result) - 1) : result[j] > result[j + 1]

====
